---- MODULE Spec2Model ----
(***************************************************************************)
(* A model of graph_app.py: the JSON -> Graphviz DOT builder (_next,       *)
(* _to_dot, json2graph) and the Streamlit request handler around it.       *)
(*                                                                         *)
(* Text is modelled as a sequence of one-character strings, so that        *)
(* formatting (f"N{n:04d}", str(), html.escape) is computed rather than    *)
(* assumed.  The DOT buffer is the sequence of statements the code writes, *)
(* in the order it writes them.                                            *)
(***************************************************************************)
EXTENDS Integers, Sequences, FiniteSets, TLC

VARIABLES pc, uploaded_file, json_data, dot_input, png, svg, shown, e

vars == <<pc, uploaded_file, json_data, dot_input, png, svg, shown, e>>

(***************************************************************************)
(* Bounds of the model.                                                    *)
(***************************************************************************)
\* Largest number of JSON elements (containers and scalars) in a document.
MaxSize == 4
\* Longest text drawn over Alphabet for the keys and strings of TextDocs.
MaxTextLen == 2

(***************************************************************************)
(* JSON values as json.load returns them (dict, list, str, int, None).     *)
(***************************************************************************)
JNull == [type |-> "null", s |-> <<>>, n |-> 0, keys |-> <<>>, items |-> <<>>]

JStr(t) == [type |-> "str", s |-> t, n |-> 0, keys |-> <<>>, items |-> <<>>]

JInt(i) == [type |-> "int", s |-> <<>>, n |-> i, keys |-> <<>>, items |-> <<>>]

JList(q) == [type |-> "list", s |-> <<>>, n |-> 0, keys |-> <<>>, items |-> q]

JDict(ks, q) == [type |-> "dict", s |-> <<>>, n |-> 0, keys |-> ks, items |-> q]

\* A type test that forgets lists: isinstance(item, dict).
IsCompositeDictOnly(v) == v.type = "dict"

\* isinstance(item, (dict, list))
IsComposite(v) == v.type \in {"dict", "list"}

(***************************************************************************)
(* Text helpers.                                                           *)
(***************************************************************************)
Digit(d) == <<"0", "1", "2", "3", "4", "5", "6", "7", "8", "9">>[d + 1]

RECURSIVE Decimal(_)
\* The decimal digits of a natural number, as format "d" and str() give them.
Decimal(n) == IF n < 10 THEN <<Digit(n)>> ELSE Decimal(n \div 10) \o <<Digit(n % 10)>>

RECURSIVE ZeroPad(_, _)
\* Left-pad with zeros up to a minimum width; wider text is left as it is.
ZeroPad(t, width) == IF Len(t) >= width THEN t ELSE ZeroPad(<<"0">> \o t, width)

\* The field width of the format specification in f"N{n:04d}".
IdWidth == 4

\* A mis-formatted identifier: the counter is cut to its last four digits.
NextWrapping(n) == <<"N">> \o ZeroPad(Decimal(n % 10000), IdWidth)

\* _next(n): f"N{n:04d}"
_next(n) == <<"N">> \o ZeroPad(Decimal(n), IdWidth)

RECURSIVE Replace(_, _, _)
\* str.replace(c, r) for a one-character c.
Replace(t, c, r) ==
    IF t = <<>> THEN <<>>
    ELSE (IF Head(t) = c THEN r ELSE <<Head(t)>>) \o Replace(Tail(t), c, r)

AMP == <<"&", "a", "m", "p", ";">>
LT == <<"&", "l", "t", ";">>
GT == <<"&", "g", "t", ";">>
QUOT == <<"&", "q", "u", "o", "t", ";">>
APOS == <<"&", "#", "x", "2", "7", ";">>
NBSP == <<"&", "n", "b", "s", "p", ";">>

\* html.escape(s) with its default quote=True: s.replace("&", "&amp;"), then
\* "<", ">", '"' and "'" in turn, each on the result of the one before.
html_escape(t) ==
    CHOOSE s5 \in
        {Replace(s4, "'", APOS) : s4 \in
            {Replace(s3, "\"", QUOT) : s3 \in
                {Replace(s2, ">", GT) : s2 \in
                    {Replace(s1, "<", LT) : s1 \in
                        {Replace(s0, "&", AMP) : s0 \in {t}}}}}} : TRUE

\* A rendering that writes the parsed null the way JSON spells it.
StrJsonNull(v) ==
    CASE v.type = "str" -> v.s
      [] v.type = "int" -> Decimal(v.n)
      [] v.type = "null" -> <<"n", "u", "l", "l">>
      [] OTHER -> <<>>

\* str(x) of a scalar value returned by json.load.
str(v) ==
    CASE v.type = "str" -> v.s
      [] v.type = "int" -> Decimal(v.n)
      [] v.type = "null" -> <<"N", "o", "n", "e">>
      [] OTHER -> <<>>

(***************************************************************************)
(* The statements _to_dot writes into the buffer.                          *)
(***************************************************************************)
\* One <TR> of a table label: the key cell, and the value cell with its PORT.
\* The blank row of an empty container is a single cell with COLSPAN="2".
Row(key, port, cell, colspan, border0) ==
    [key |-> key, port |-> port, cell |-> cell, colspan |-> colspan, border0 |-> border0]

\* '<TR><TD COLSPAN="2">&nbsp;</TD></TR>'
BlankRow == Row(<<>>, <<>>, NBSP, 2, FALSE)

\* The port name written as PORT="p_{i}".
Port(i) == <<"p", "_">> \o Decimal(i)

\* The anchor f"{name}:p_{i}" handed to the recursive call.
PortRef(name, i) == name \o <<":">> \o Port(i)

\* The placeholder "&nbsp;"*4 shown in the cell of a composite child.
Placeholder == NBSP \o NBSP \o NBSP \o NBSP

\* A cell that inserts the text without html.escape.
CellUnescaped(item) == IF IsComposite(item) THEN Placeholder ELSE str(item)

\* cell = "&nbsp;"*4 if isinstance(item, (dict, list)) else html.escape(str(item))
Cell(item) == IF IsComposite(item) THEN Placeholder ELSE html_escape(str(item))

\* '<TR><TD BORDER="0">{i}</TD><TD PORT="p_{i}">{cell}</TD></TR>'
ListRow(i, item) == Row(Decimal(i), Port(i), Cell(item), 1, TRUE)

\* '<TR><TD>{html.escape(str(k))}</TD><TD PORT="p_{i}">{cell}</TD></TR>'
DictRow(i, k, v) == Row(html_escape(k), Port(i), Cell(v), 1, FALSE)

\* '{name} [label=< <TABLE ...> rows </TABLE> >];'
TableStmt(name, rows) ==
    [k |-> "table", name |-> name, rows |-> rows, label |-> <<>>, src |-> <<>>]

\* '{name} [label="{html.escape(str(data))}"];'
LabelStmt(name, label) ==
    [k |-> "label", name |-> name, rows |-> <<>>, label |-> label, src |-> <<>>]

\* '{parent}->{name};'
EdgeStmt(parent, name) ==
    [k |-> "edge", name |-> name, rows |-> <<>>, label |-> <<>>, src |-> parent]

\* Rows written without the "if not data" branch: an empty list has none.
ListRowsNoBlank(data) == [i \in 1..Len(data.items) |-> ListRow(i - 1, data.items[i])]

\* The rows of a list's table.
ListRows(data) ==
    IF data.items = <<>> THEN <<BlankRow>>
    ELSE [i \in 1..Len(data.items) |-> ListRow(i - 1, data.items[i])]

\* The rows of a dict's table.
DictRows(data) ==
    IF data.items = <<>> THEN <<BlankRow>>
    ELSE [i \in 1..Len(data.items) |-> DictRow(i - 1, data.keys[i], data.items[i])]

\* A recursion that hands the child the parent's counter instead of idx+1.
ChildIdxSame(idx) == idx

\* The counter handed to the recursive call: idx+1.
ChildIdx(idx) == idx + 1

\* An edge that leaves the row after the one holding the child.
ChildAnchorNextRow(name, i) == PortRef(name, i + 1)

\* The anchor of the recursive call for row i: f"{name}:p_{i}".
ChildAnchor(name, i) == PortRef(name, i)

RECURSIVE _to_dot(_, _, _, _), Children(_, _, _, _, _)
\* The loop "for i, item in enumerate(data): if isinstance(item, (dict, list)):
\* idx = _to_dot(f"{name}:p_{i}", item, idx+1, buf)", from position i on.
Children(name, items, i, idx, buf) ==
    IF i >= Len(items) THEN [idx |-> idx, buf |-> buf]
    ELSE IF IsComposite(items[i + 1])
         THEN LET r == _to_dot(ChildAnchor(name, i), items[i + 1], ChildIdx(idx), buf)
              IN  Children(name, items, i + 1, r.idx, r.buf)
         ELSE Children(name, items, i + 1, idx, buf)

\* _to_dot(parent, data, idx, buf): the returned counter and the buffer after it.
_to_dot(parent, data, idx, buf) ==
    LET name == _next(idx) IN
    IF data.type = "list" THEN
        Children(name, data.items, 0, idx,
                 buf \o <<TableStmt(name, ListRows(data)), EdgeStmt(parent, name)>>)
    ELSE IF data.type = "dict" THEN
        Children(name, data.items, 0, idx,
                 buf \o <<TableStmt(name, DictRows(data)), EdgeStmt(parent, name)>>)
    ELSE [idx |-> idx,
          buf |-> buf \o <<LabelStmt(name, html_escape(str(data))),
                           EdgeStmt(parent, name)>>]

\* The text_input default value (two CJK characters, written here by code
\* point), used as the root label.
root_label == <<"U+7269", "U+6027">>

ROOT == <<"r", "o", "o", "t">>

\* 'root [label="{root_label}", shape=circle, ...];'
RootStmt == [k |-> "root", name |-> ROOT, rows |-> <<>>, label |-> root_label, src |-> <<>>]

\* The DOT document json2graph hands to the renderer (dot.getvalue()).
DotText(data) == _to_dot(ROOT, data, 0, <<RootStmt>>).buf

(***************************************************************************)
(* The documents a user can upload.                                        *)
(***************************************************************************)
SampleText == <<"<", "a", ">", "&", "\"">>

\* The scalar leaves of the generated documents: null, a string, a number.
Scalars == {JNull, JStr(SampleText), JInt(12)}

\* The key of the i-th member of a generated object (keys of a dict differ).
KeyAt(i) ==
    CASE i = 0 -> <<"x">>
      [] i = 1 -> <<"<", "k", ">">>
      [] i = 2 -> <<"a", "&", "b">>
      [] OTHER -> <<"k">> \o Decimal(i)

KeysFor(n) == [i \in 1..n |-> KeyAt(i - 1)]

RECURSIVE ValuesOfSize(_), SeqsOfSize(_)
\* The JSON values made of exactly n elements.
ValuesOfSize(n) ==
    IF n = 1 THEN Scalars \cup {JList(<<>>), JDict(<<>>, <<>>)}
    ELSE {JList(q) : q \in SeqsOfSize(n - 1)}
         \cup {JDict(KeysFor(Len(q)), q) : q \in SeqsOfSize(n - 1)}

\* The sequences of JSON values that hold m elements in all.
SeqsOfSize(m) ==
    IF m = 0 THEN {<<>>}
    ELSE UNION {{<<v>> \o r : v \in ValuesOfSize(k), r \in SeqsOfSize(m - k)} : k \in 1..m}

Alphabet == {"<", ">", "&", "\"", "'", "a", ";"}

\* Texts that already look like entities.
EntityTexts == {AMP, LT, APOS, <<"a">> \o NBSP, <<"&", "a", "m", "p">>}

Texts == UNION {[1..k -> Alphabet] : k \in 0..MaxTextLen} \cup EntityTexts

\* Documents that carry a text as top-level scalar, list item, key and value.
TextDocs ==
    UNION {{JStr(t), JList(<<JStr(t)>>), JDict(<<t>>, <<JStr(t)>>)} : t \in Texts}

Docs == UNION {ValuesOfSize(n) : n \in 1..MaxSize} \cup TextDocs

\* An uploaded file: content json.load parses to value, or content it rejects.
Uploads ==
    {[ok |-> TRUE, value |-> d, error |-> "none"] : d \in Docs}
    \cup {[ok |-> FALSE, value |-> JNull, error |-> x] :
            x \in {"JSONDecodeError", "UnicodeDecodeError"}}

NoFile == [ok |-> FALSE, value |-> JNull, error |-> "none"]

(***************************************************************************)
(* Exceptions and what the page shows.                                     *)
(***************************************************************************)
NoExc == [type |-> "none", cmd |-> "none"]

Exc(type, cmd) == [type |-> type, cmd |-> cmd]

\* A handler that only expects malformed JSON.
CatchesJsonOnly(x) == x.type = "JSONDecodeError"

\* "except Exception": every exception raised in the try block is an Exception.
Catches(x) ==
    x.type \in {"JSONDecodeError", "UnicodeDecodeError", "CalledProcessError",
                "FileNotFoundError"}

\* Where control goes when x is raised inside the try block.
Raise(x) == IF Catches(x) THEN "except" ELSE "crashed"

\* str(e), as far as it tells the failures apart.
ExcStr(x) ==
    CASE x.type = "JSONDecodeError" -> <<"Expecting value">>
      [] x.type = "UnicodeDecodeError" -> <<"'utf-8' codec can't decode byte">>
      [] x.type = "CalledProcessError" ->
            <<"Command", "dot", x.cmd, "returned non-zero exit status">>
      [] x.type = "FileNotFoundError" -> <<"No such file or directory", "dot">>
      [] OTHER -> <<>>

Widget(w, text) == [w |-> w, text |-> text]

\* A message that leaves the exception out.
ErrorWidgetGeneric(x) == Widget("error", <<"An error occurred">>)

\* st.error(f"... An error occurred: {e}")
ErrorWidget(x) == Widget("error", <<"An error occurred">> \o ExcStr(x))

Shows(w) == \E i \in 1..Len(shown) : shown[i].w = w

(***************************************************************************)
(* The request handler, one action per step of the script.                 *)
(***************************************************************************)
Init ==
    /\ pc = "idle"
    /\ uploaded_file = NoFile
    /\ json_data = JNull
    /\ dot_input = <<>>
    /\ png = "none"
    /\ svg = "none"
    /\ shown = <<>>
    /\ e = NoExc

\* st.file_uploader returns a file: "if uploaded_file:" is taken.
Upload ==
    /\ pc = "idle"
    /\ \E f \in Uploads : uploaded_file' = f
    /\ pc' = "load"
    /\ UNCHANGED <<json_data, dot_input, png, svg, shown, e>>

\* json.load succeeds; st.success; the two temporary files are created.
LoadOk ==
    /\ pc = "load"
    /\ uploaded_file.ok
    /\ json_data' = uploaded_file.value
    /\ shown' = Append(shown, Widget("success", <<"JSON successfully loaded">>))
    /\ png' = "empty"
    /\ svg' = "empty"
    /\ pc' = "build"
    /\ UNCHANGED <<uploaded_file, dot_input, e>>

\* json.load raises.
LoadFail ==
    /\ pc = "load"
    /\ ~uploaded_file.ok
    /\ e' = Exc(uploaded_file.error, "none")
    /\ pc' = Raise(e')
    /\ UNCHANGED <<uploaded_file, json_data, dot_input, png, svg, shown>>

\* json2graph up to dot_input = dot.getvalue().
Build ==
    /\ pc = "build"
    /\ dot_input' = DotText(json_data)
    /\ pc' = "png"
    /\ UNCHANGED <<uploaded_file, json_data, png, svg, shown, e>>

\* subprocess.run(["dot", "-Tpng", ...], check=True) returns with status 0.
RunPngOk ==
    /\ pc = "png"
    /\ png' = "image"
    /\ pc' = "svg"
    /\ UNCHANGED <<uploaded_file, json_data, dot_input, svg, shown, e>>

\* The PNG run exits non-zero, or the dot binary is missing.
RunPngFail ==
    /\ pc = "png"
    /\ \E t \in {"CalledProcessError", "FileNotFoundError"} : e' = Exc(t, "-Tpng")
    /\ pc' = Raise(e')
    /\ UNCHANGED <<uploaded_file, json_data, dot_input, png, svg, shown>>

\* The PNG run never returns: subprocess.run has no timeout and blocks.
RunPngHang ==
    /\ pc = "png"
    /\ pc' = "blocked"
    /\ UNCHANGED <<uploaded_file, json_data, dot_input, png, svg, shown, e>>

\* subprocess.run(["dot", "-Tsvg", ...], check=True) returns with status 0.
RunSvgOk ==
    /\ pc = "svg"
    /\ svg' = "image"
    /\ pc' = "image"
    /\ UNCHANGED <<uploaded_file, json_data, dot_input, png, shown, e>>

\* The SVG run exits non-zero, or the dot binary is missing.
RunSvgFail ==
    /\ pc = "svg"
    /\ \E t \in {"CalledProcessError", "FileNotFoundError"} : e' = Exc(t, "-Tsvg")
    /\ pc' = Raise(e')
    /\ UNCHANGED <<uploaded_file, json_data, dot_input, png, svg, shown>>

\* The SVG run never returns.
RunSvgHang ==
    /\ pc = "svg"
    /\ pc' = "blocked"
    /\ UNCHANGED <<uploaded_file, json_data, dot_input, png, svg, shown, e>>

\* Image.open(tmp_png.name); st.image(...)
ShowImage ==
    /\ pc = "image"
    /\ shown' = Append(shown, Widget("image", <<png>>))
    /\ pc' = "link"
    /\ UNCHANGED <<uploaded_file, json_data, dot_input, png, svg, e>>

\* The SVG file is read, base64-encoded and shown as a link.
ShowSvgLink ==
    /\ pc = "link"
    /\ shown' = Append(shown, Widget("link", <<svg>>))
    /\ pc' = "download"
    /\ UNCHANGED <<uploaded_file, json_data, dot_input, png, svg, e>>

\* st.download_button(...)
ShowDownload ==
    /\ pc = "download"
    /\ shown' = Append(shown, Widget("download", <<png>>))
    /\ pc' = "done"
    /\ UNCHANGED <<uploaded_file, json_data, dot_input, png, svg, e>>

\* except Exception as e: st.error(...)
Except ==
    /\ pc = "except"
    /\ shown' = Append(shown, ErrorWidget(e))
    /\ pc' = "done"
    /\ UNCHANGED <<uploaded_file, json_data, dot_input, png, svg, e>>

Next ==
    \/ Upload
    \/ LoadOk
    \/ LoadFail
    \/ Build
    \/ RunPngOk
    \/ RunPngFail
    \/ RunPngHang
    \/ RunSvgOk
    \/ RunSvgFail
    \/ RunSvgHang
    \/ ShowImage
    \/ ShowSvgLink
    \/ ShowDownload
    \/ Except

Spec == Init /\ [][Next]_vars

\* The script runs each of its steps as soon as it can; nothing else is
\* scheduled.  A renderer that does not return leaves no step to run.
FairSpec == Spec /\ WF_vars(Next)

(***************************************************************************)
(* Reading the emitted document back, as a renderer would.                 *)
(***************************************************************************)
Built == dot_input # <<>>

\* Positions of the node statements _to_dot wrote (the root statement is
\* json2graph's) and of the edge statements.
NodeIdx == {i \in 1..Len(dot_input) : dot_input[i].k \in {"table", "label"}}

TableIdx == {i \in 1..Len(dot_input) : dot_input[i].k = "table"}

LabelIdx == {i \in 1..Len(dot_input) : dot_input[i].k = "label"}

EdgeIdx == {i \in 1..Len(dot_input) : dot_input[i].k = "edge"}

EdgesFrom(anchor) == {i \in EdgeIdx : dot_input[i].src = anchor}

EdgesTo(name) == {i \in EdgeIdx : dot_input[i].name = name}

NodesNamed(name) == {i \in NodeIdx : dot_input[i].name = name}

\* Edges that leave the node itself or any of its ports.
EdgesOutOf(name) ==
    {i \in EdgeIdx : /\ Len(dot_input[i].src) >= Len(name)
                     /\ SubSeq(dot_input[i].src, 1, Len(name)) = name}

DigitValue(c) == CHOOSE d \in 0..9 : Digit(d) = c

IsDigit(c) == \E d \in 0..9 : Digit(d) = c

RECURSIVE Value(_)
\* The number a digit string denotes.
Value(t) ==
    IF t = <<>> THEN 0
    ELSE Value(SubSeq(t, 1, Len(t) - 1)) * 10 + DigitValue(t[Len(t)])

\* 'N' followed by at least four digits.
WellFormedId(name) ==
    /\ Len(name) >= 5
    /\ name[1] = "N"
    /\ \A i \in 2..Len(name) : IsDigit(name[i])

\* The counter an identifier carries.
Ctr(name) == Value(Tail(name))

SetMax(S) == CHOOSE m \in S : \A x \in S : x <= m

RECURSIVE NComposite(_), NScalar(_), Subvalues(_)
\* The number of objects and arrays in a value.
NComposite(v) ==
    IF v.type \in {"dict", "list"}
    THEN 1 + (LET f[i \in 0..Len(v.items)] ==
                      IF i = 0 THEN 0 ELSE f[i - 1] + NComposite(v.items[i])
              IN  f[Len(v.items)])
    ELSE 0

\* The number of scalars in a value.
NScalar(v) ==
    IF v.type \in {"dict", "list"}
    THEN LET f[i \in 0..Len(v.items)] ==
                 IF i = 0 THEN 0 ELSE f[i - 1] + NScalar(v.items[i])
         IN  f[Len(v.items)]
    ELSE 1

\* A value and everything nested in it.
Subvalues(v) == {v} \cup UNION {Subvalues(v.items[i]) : i \in 1..Len(v.items)}

\* The rows (0-based) of a container that hold a container.
CompositeRows(v) == {i \in 0..(Len(v.items) - 1) : v.items[i + 1].type \in {"dict", "list"}}

ScalarRows(v) == (0..(Len(v.items) - 1)) \ CompositeRows(v)

(***************************************************************************)
(* C1                                                                      *)
(***************************************************************************)
\* Counters beyond the four-digit field, among them the ones that wrap onto c.
WideCounters(c) == {9999, 10000, 10001, 10000 + c, 20000 + c, 100000 + c}

\* C1: in one build no two emitted node statements carry the same identifier;
\* every identifier is 'N' followed by the counter zero-padded to 4 digits;
\* a counter above 9999 gives a wider identifier that still carries its
\* counter and equals no identifier emitted for a smaller counter.
IdentifiersUnique ==
    Built =>
        /\ \A i, j \in NodeIdx : i # j => dot_input[i].name # dot_input[j].name
        /\ \A i \in NodeIdx :
              LET name == dot_input[i].name IN
              /\ WellFormedId(name)
              /\ Len(name) = 5
              /\ \A w \in WideCounters(Ctr(name)) :
                    /\ WellFormedId(_next(w))
                    /\ Ctr(_next(w)) = w
                    /\ w > 9999 => Len(_next(w)) > 5
                    /\ w # Ctr(name) => _next(w) # name

\* A build of four nested containers has emitted four different identifiers.
IdentifiersUniqueWitness ==
    /\ Built
    /\ Cardinality(NodeIdx) = 4
    /\ Cardinality({dot_input[i].name : i \in NodeIdx}) = 4

(***************************************************************************)
(* C2                                                                      *)
(***************************************************************************)
\* C2 as stated: one table node per composite value, one label node per
\* scalar value, one edge per value (from its parent, or from root).
OneNodePerValue ==
    Built =>
        /\ Cardinality(TableIdx) = NComposite(json_data)
        /\ Cardinality(LabelIdx) = NScalar(json_data)
        /\ Cardinality(EdgeIdx) = NComposite(json_data) + NScalar(json_data)

\* C2, amended: the build ends with one table node per composite value, a
\* label node only for a scalar top-level value (a scalar inside a container
\* is cell text: no node, no edge), and one edge per emitted node, each node
\* being the target of exactly one edge.
OneNodePerComposite ==
    /\ pc = "build" => Len(DotText(json_data)) > 1
    /\ Built =>
        /\ Cardinality(TableIdx) = NComposite(json_data)
        /\ Cardinality(LabelIdx) = (IF json_data.type \in {"dict", "list"} THEN 0 ELSE 1)
        /\ Cardinality(EdgeIdx) = Cardinality(NodeIdx)
        /\ \A i \in NodeIdx : Cardinality(EdgesTo(dot_input[i].name)) = 1
        /\ \A i \in EdgeIdx : NodesNamed(dot_input[i].name) # {}

\* A build of a document with nested containers and scalars inside them.
OneNodePerCompositeWitness ==
    /\ Built
    /\ NComposite(json_data) = 3
    /\ NScalar(json_data) = 1
    /\ Cardinality(TableIdx) = 3

(***************************************************************************)
(* C3                                                                      *)
(***************************************************************************)
Entities == {AMP, LT, GT, QUOT, APOS}

StartsWith(t, p) == Len(t) >= Len(p) /\ SubSeq(t, 1, Len(p)) = p

\* No '<', '>' or '"' at all, and every '&' opens one of the entities.
NoUnescaped(t) ==
    \A i \in 1..Len(t) :
        /\ t[i] \notin {"<", ">", "\""}
        /\ t[i] = "&" => \E en \in Entities : StartsWith(SubSeq(t, i, Len(t)), en)

EntityChar(en) ==
    CASE en = AMP -> "&"
      [] en = LT -> "<"
      [] en = GT -> ">"
      [] en = QUOT -> "\""
      [] OTHER -> "'"

RECURSIVE Unescape(_)
\* Decoding of the entities, left to right; other text is kept.
Unescape(t) ==
    IF t = <<>> THEN <<>>
    ELSE LET E == {en \in Entities : StartsWith(t, en)} IN
         IF E # {}
         THEN LET en == CHOOSE x \in E : TRUE
              IN  <<EntityChar(en)>> \o Unescape(SubSeq(t, Len(en) + 1, Len(t)))
         ELSE <<Head(t)>> \o Unescape(Tail(t))

RoundTrip(emitted, original) == NoUnescaped(emitted) /\ Unescape(emitted) = original

RECURSIVE TextsRoundTrip(_, _)
\* Every key and scalar of v, read in the node reached from anchor.
TextsRoundTrip(v, anchor) ==
    /\ EdgesFrom(anchor) # {}
    /\ \A ei \in EdgesFrom(anchor) :
          /\ NodesNamed(dot_input[ei].name) # {}
          /\ \A ni \in NodesNamed(dot_input[ei].name) :
                LET node == dot_input[ni] IN
                IF v.type \in {"dict", "list"}
                THEN /\ Len(node.rows) >= Len(v.items)
                     /\ \A i \in 1..Len(v.items) :
                           /\ v.type = "dict" => RoundTrip(node.rows[i].key, v.keys[i])
                           /\ IF v.items[i].type \in {"dict", "list"}
                              THEN TextsRoundTrip(v.items[i], PortRef(node.name, i - 1))
                              ELSE v.items[i].type = "str" =>
                                       RoundTrip(node.rows[i].cell, v.items[i].s)
                ELSE v.type = "str" => RoundTrip(node.label, v.s)

\* C3: the text emitted for every object key, every scalar value cell and the
\* scalar label holds no unescaped '<', '>', '&' or '"', and decoding its
\* entities gives back the original string.
EscapingRoundTrip == Built => TextsRoundTrip(json_data, ROOT)

HasSpecial(t) == \E i \in 1..Len(t) : t[i] \in {"<", ">", "&", "\""}

\* An object whose key and string value hold metacharacters has been built.
EscapingRoundTripWitness ==
    /\ Built
    /\ json_data.type = "dict"
    /\ Len(json_data.items) = 1
    /\ json_data.items[1].type = "str"
    /\ HasSpecial(json_data.keys[1])
    /\ HasSpecial(json_data.items[1].s)
    /\ Len(dot_input[2].rows[1].cell) > Len(json_data.items[1].s)

(***************************************************************************)
(* C4                                                                      *)
(***************************************************************************)
RECURSIVE RowsLinked(_, _)
\* name is a table for v: each composite row has one edge, from that row's
\* declared port to a table for the row's value; scalar rows have none.
RowsLinked(v, name) ==
    /\ Cardinality(NodesNamed(name)) = 1
    /\ \A ni \in NodesNamed(name) :
          LET node == dot_input[ni] IN
          /\ node.k = "table"
          /\ Len(node.rows) = (IF v.items = <<>> THEN 1 ELSE Len(v.items))
          /\ \A i \in ScalarRows(v) : EdgesFrom(PortRef(name, i)) = {}
          /\ \A i \in CompositeRows(v) :
                /\ node.rows[i + 1].port = Port(i)
                /\ node.rows[i + 1].cell = Placeholder
                /\ Cardinality(EdgesFrom(PortRef(name, i))) = 1
                /\ \A ei \in EdgesFrom(PortRef(name, i)) :
                      RowsLinked(v.items[i + 1], dot_input[ei].name)
          /\ Cardinality(EdgesOutOf(name)) = Cardinality(CompositeRows(v))

\* C4: in every composite node each row holding an object or array has
\* exactly one outgoing edge, from that row's port p_i (declared in the
\* table) to the node built for that row's value; a scalar row has none.
RowEdges ==
    (Built /\ json_data.type \in {"dict", "list"}) =>
        /\ Cardinality(EdgesFrom(ROOT)) = 1
        /\ \A ei \in EdgesFrom(ROOT) : RowsLinked(json_data, dot_input[ei].name)

\* A table with a scalar row followed by a composite row has been built.
RowEdgesWitness ==
    /\ Built
    /\ json_data.type \in {"dict", "list"}
    /\ 0 \in ScalarRows(json_data)
    /\ 1 \in CompositeRows(json_data)
    /\ EdgesFrom(PortRef(_next(0), 1)) # {}

(***************************************************************************)
(* C5                                                                      *)
(***************************************************************************)
SpanningBlankRow ==
    [key |-> <<>>, port |-> <<>>, cell |-> NBSP, colspan |-> 2, border0 |-> FALSE]

RECURSIVE EmptiesBlank(_, _)
\* Every empty container in v, reached from anchor, is one table of one
\* blank spanning row with one incoming edge and no outgoing edge.
EmptiesBlank(v, anchor) ==
    /\ Cardinality(EdgesFrom(anchor)) = 1
    /\ \A ei \in EdgesFrom(anchor) :
          LET name == dot_input[ei].name IN
          /\ Cardinality(NodesNamed(name)) = 1
          /\ Cardinality(EdgesTo(name)) = 1
          /\ \A ni \in NodesNamed(name) :
                /\ v.items = <<>> =>
                      /\ dot_input[ni].k = "table"
                      /\ dot_input[ni].rows = <<SpanningBlankRow>>
                      /\ EdgesOutOf(name) = {}
                /\ \A i \in CompositeRows(v) :
                      EmptiesBlank(v.items[i + 1], PortRef(name, i))

\* C5: an empty array and an empty object, at any depth, each give exactly
\* one composite node with exactly one blank row spanning both columns, one
\* incoming edge from its anchor, and no child edges.
EmptyContainers ==
    (Built /\ json_data.type \in {"dict", "list"}) => EmptiesBlank(json_data, ROOT)

\* An empty object and an empty array nested two levels down have been built.
EmptyContainersWitness ==
    /\ Built
    /\ \E a, b \in 1..Len(json_data.items) :
          /\ json_data.items[a] = JList(<<>>)
          /\ json_data.items[b].type = "list"
          /\ json_data.items[b].items = <<JDict(<<>>, <<>>)>>
    /\ Cardinality({i \in TableIdx : dot_input[i].rows = <<SpanningBlankRow>>}) = 2

(***************************************************************************)
(* C6                                                                      *)
(***************************************************************************)
XNull == JDict(<<<<"x">>>>, <<JNull>>)

\* The table of the top-level value has one row, keyed x, showing text.
TopRowShows(text) ==
    /\ Cardinality(EdgesFrom(ROOT)) = 1
    /\ \A ei \in EdgesFrom(ROOT) :
          /\ Cardinality(NodesNamed(dot_input[ei].name)) = 1
          /\ \A ni \in NodesNamed(dot_input[ei].name) :
                /\ dot_input[ni].k = "table"
                /\ Len(dot_input[ni].rows) = 1
                /\ dot_input[ni].rows[1].key = <<"x">>
                /\ dot_input[ni].rows[1].cell = text
                /\ EdgesOutOf(dot_input[ni].name) = {}

\* C6 as stated: for {"x": null} the one row x shows the text null and has
\* no edge.
XNullShowsNull ==
    (Built /\ json_data = XNull) => TopRowShows(<<"n", "u", "l", "l">>)

\* C6, amended: for {"x": null} the one row x shows the text None (str() of
\* the parsed null) and has no edge.
XNullShowsNone ==
    (Built /\ json_data = XNull) => TopRowShows(<<"N", "o", "n", "e">>)

\* {"x": null} has been built.
XNullWitness == Built /\ json_data = XNull /\ Len(dot_input) = 3

(***************************************************************************)
(* C7, C8, C9                                                              *)
(***************************************************************************)
RenderFailed == e.type \in {"CalledProcessError", "FileNotFoundError"}

ParseFailed == e.type \in {"JSONDecodeError", "UnicodeDecodeError"}

\* C7: once a renderer run (PNG or SVG) has failed, the page shows no PNG
\* image, no SVG link and no download button, the failure is caught by the
\* handler (control is in it or past it, never outside), and the request
\* ends with the error message shown.
RenderFailureShowsNothing ==
    RenderFailed =>
        /\ ~Shows("image") /\ ~Shows("link") /\ ~Shows("download")
        /\ pc \in {"except", "done"}
        /\ pc = "done" => Shows("error")

\* The SVG run failed after the PNG was written, and the request has ended.
RenderFailureWitness ==
    /\ pc = "done"
    /\ e = Exc("CalledProcessError", "-Tsvg")
    /\ png = "image"
    /\ Shows("error")

ParseReports ==
    {ErrorWidget(Exc(x, "none")) : x \in {"JSONDecodeError", "UnicodeDecodeError"}}

RenderReports ==
    {ErrorWidget(Exc(x, c)) : x \in {"CalledProcessError", "FileNotFoundError"},
                              c \in {"-Tpng", "-Tsvg"}}

ErrorsShown == {shown[i] : i \in {j \in 1..Len(shown) : shown[j].w = "error"}}

\* C8: the report of a renderer failure names the renderer and is never a
\* report that a malformed-input failure gives, and the other way round.
RenderReportDistinct ==
    /\ RenderFailed =>
          \A r \in ErrorsShown :
              /\ r \notin ParseReports
              /\ \E i \in 1..Len(r.text) : r.text[i] = "dot"
    /\ ParseFailed =>
          \A r \in ErrorsShown :
              /\ r \notin RenderReports
              /\ \A i \in 1..Len(r.text) : r.text[i] # "dot"

\* A renderer failure has been reported.
RenderReportWitness == pc = "done" /\ RenderFailed /\ ErrorsShown # {}

\* C9: a renderer run that does not return is cut off by a timeout, so the
\* request still ends as a failed request with an error reported.
HungRendererTimesOut == (pc = "blocked") ~> (pc = "done" /\ Shows("error"))

(***************************************************************************)
(* C10                                                                     *)
(***************************************************************************)
RECURSIVE SubtreeCtrs(_, _), PreOrderAt(_, _)
\* The counters of the node name, built for v, and of the nodes below it.
SubtreeCtrs(v, name) ==
    {Ctr(name)} \cup
    UNION {UNION {SubtreeCtrs(v.items[i + 1], dot_input[ei].name) :
                     ei \in EdgesFrom(PortRef(name, i))} : i \in CompositeRows(v)}

\* Below name: a parent is numbered before all its descendants, and the
\* whole subtree of a row before the node of any later row.
PreOrderAt(v, name) ==
    \A i \in CompositeRows(v) :
        /\ EdgesFrom(PortRef(name, i)) # {}
        /\ \A ei \in EdgesFrom(PortRef(name, i)) :
              LET child == dot_input[ei].name IN
              /\ \A c \in SubtreeCtrs(v.items[i + 1], child) : Ctr(name) < c
              /\ \A j \in CompositeRows(v) :
                    j > i => \A ej \in EdgesFrom(PortRef(name, j)) :
                                \A c \in SubtreeCtrs(v.items[i + 1], child) :
                                    c < Ctr(dot_input[ej].name)
              /\ PreOrderAt(v.items[i + 1], child)

CtrsUsed == {Ctr(dot_input[i].name) : i \in NodeIdx}

\* The counters of the node statements in buf.
CtrsIn(buf) ==
    {Ctr(buf[i].name) : i \in {j \in 1..Len(buf) : buf[j].k \in {"table", "label"}}}

\* _to_dot returns the highest counter used in the subtree it wrote, for
\* every value nested in the document and the start counters 0 and 3.
ReturnsHighest ==
    \A v \in Subvalues(json_data) : \A c \in {0, 3} :
        LET r == _to_dot(ROOT, v, c, <<>>) IN r.idx = SetMax(CtrsIn(r.buf))

PreOrderWith(k) ==
    /\ EdgesFrom(ROOT) # {}
    /\ \A ei \in EdgesFrom(ROOT) :
          /\ Ctr(dot_input[ei].name) = 0
          /\ PreOrderAt(json_data, dot_input[ei].name)
    /\ CtrsUsed = 0..(k - 1)
    /\ ReturnsHighest

\* C10 as stated: pre-order numbering from 0, and the counters used are
\* exactly 0..k-1 for k composite nodes.
PreOrderByComposites == Built => PreOrderWith(Cardinality(TableIdx))

\* C10, amended: pre-order numbering from 0, and the counters used are
\* exactly 0..k-1 for k emitted nodes (the composite nodes, or the one label
\* node of a scalar top-level value); _to_dot returns the highest used.
PreOrderIds == Built => PreOrderWith(Cardinality(NodeIdx))

\* A parent whose first row holds a nested container and whose second row
\* holds another container has been numbered.
PreOrderIdsWitness ==
    /\ Built
    /\ CompositeRows(json_data) = {0, 1}
    /\ CompositeRows(json_data.items[1]) = {0}
    /\ CtrsUsed = 0..3

====
